---- MODULE Spec2Model ----
(***************************************************************************)
(* Model of the portfolio-management backend: the metrics engine           *)
(* (backend/analysis.py, PortfolioAnalyzer), the request handlers          *)
(* (backend/main.py) and the quote cache (backend/scraper.py).             *)
(*                                                                         *)
(* Numbers.  A daily return is an integer number of units of               *)
(* 1/RetUnit; RetUnit = 100 * 252 makes both a return of one percent (252  *)
(* units) and the daily risk-free rate 0.02/252 (RfUnits = 2 units) exact. *)
(* A pandas Series is a function from the dates of its index to values.    *)
(* A statistic that is a quotient or a square root is kept exact as a      *)
(* record of its integer parts; NaN and the infinities that IEEE division  *)
(* produces are kept as kinds of the record.                               *)
(***************************************************************************)
EXTENDS Integers, Sequences, FiniteSets, TLC

VARIABLES returns, market_returns, result, portfolios, cache, clock, response, call

vars == <<returns, market_returns, result, portfolios, cache, clock, response, call>>

----------------------------------------------------------------------------
(* Bounds of the model *)

MaxDates == 5
MaxBetaDates == 3

Dates == 1..MaxDates
BetaDates == 1..MaxBetaDates

(* trading days per year: np.sqrt(252), risk_free_rate/252 *)
TradingDays == 252
(* units of a return: 1/(100*252) *)
RetUnit == 100 * TradingDays
(* self.risk_free_rate / 252 = 0.02/252, in units of 1/RetUnit *)
RfUnits == 2
(* confidence_level = 0.95, as a percentage *)
ConfidencePct == 95

(* return values of the statistics specification: -5%, -1%, 0, 2%, 3%, and
   exactly the daily risk-free rate *)
RetVals == {-1260, -252, 0, 2, 504, 756}
BetaVals == {-1, 0, 2}

----------------------------------------------------------------------------
(* pandas Series: a function from a finite set of dates to integers *)

EmptySeries == [d \in {} |-> 0]

SeriesOver(D, V) == UNION { [S -> V] : S \in SUBSET D }

Size(s) == Cardinality(DOMAIN s)

RECURSIVE SumOver(_, _)
SumOver(s, D) ==
    IF D = {} THEN 0
    ELSE LET d == CHOOSE x \in D : TRUE IN s[d] + SumOver(s, D \ {d})

Sum(s) == SumOver(s, DOMAIN s)

SumSq(s) == SumOver([d \in DOMAIN s |-> s[d] * s[d]], DOMAIN s)

SumProd(s, t, D) == SumOver([d \in D |-> s[d] * t[d]], D)

LastDate(s) == CHOOSE d \in DOMAIN s : \A e \in DOMAIN s : e <= d

(* the values of a series in ascending order *)
RECURSIVE SortedOver(_, _)
SortedOver(s, D) ==
    IF D = {} THEN <<>>
    ELSE LET d == CHOOSE x \in D : \A y \in D : s[x] < s[y] \/ (s[x] = s[y] /\ x <= y)
         IN <<s[d]>> \o SortedOver(s, D \ {d})

Sorted(s) == SortedOver(s, DOMAIN s)

(* n * sum(x^2) - (sum x)^2: n*(n-1) times the sample variance (ddof = 1) *)
VarNum(s) == Size(s) * SumSq(s) - Sum(s) * Sum(s)

----------------------------------------------------------------------------
(* The statistics of PortfolioAnalyzer.  k is the denominator of the
   weights: a value v of the series is the return v / (RetUnit * k). *)

(* returns.iloc[-1] *)
_calculate_daily_pl(s, k) ==
    IF Size(s) > 0 THEN [kind |-> "num", num |-> s[LastDate(s)], den |-> RetUnit * k]
    ELSE [kind |-> "num", num |-> 0, den |-> 1]

(* np.percentile(returns, q) with numpy's default linear interpolation:
   the virtual index is q/100 * (n-1); the result lies between the two
   neighbouring order statistics.  The value is num / den. *)
Percentile(s, q) ==
    LET a == Sorted(s)
        n == Size(s)
        pos == q * (n - 1)
        lo == pos \div 100
        rem == pos % 100
        hi == IF lo + 1 < n THEN lo + 1 ELSE lo
    IN 100 * a[lo + 1] + rem * (a[hi + 1] - a[lo + 1])

_calculate_var(s, k) ==
    IF Size(s) > 0
    THEN [kind |-> "num", num |-> Percentile(s, 100 - ConfidencePct), den |-> 100 * RetUnit * k]
    ELSE [kind |-> "num", num |-> 0, den |-> 1]

(* returns.std() * sqrt(252); pandas' std is the sample standard deviation,
   NaN for a single value.  The value is sqrt(252 * sq_num / sq_den) / unit. *)
_calculate_volatility(s, k) ==
    IF Size(s) > 0
    THEN IF Size(s) = 1 THEN [kind |-> "nan"]
         ELSE [kind |-> "sqrt", sq_num |-> VarNum(s),
               sq_den |-> Size(s) * (Size(s) - 1), unit |-> RetUnit * k]
    ELSE [kind |-> "num", num |-> 0, den |-> 1]

(* sqrt(252) * (returns - rf/252).mean() / returns.std().  The mean excess
   return is ex_num / (n * RetUnit * k).  A zero standard deviation is an
   IEEE division by zero: +inf, -inf, or NaN for 0/0; a NaN standard
   deviation (single value) gives NaN. *)
_calculate_sharpe_ratio(s, k) ==
    IF Size(s) > 0
    THEN LET n == Size(s)
             ex_num == Sum(s) - RfUnits * k * n
         IN IF n = 1 THEN [kind |-> "nan"]
            ELSE IF VarNum(s) = 0
                 THEN IF ex_num > 0 THEN [kind |-> "inf"]
                      ELSE IF ex_num < 0 THEN [kind |-> "-inf"]
                      ELSE [kind |-> "nan"]
                 ELSE [kind |-> "ratio", ex_num |-> ex_num, var_num |-> VarNum(s), n |-> n]
    ELSE [kind |-> "num", num |-> 0, den |-> 1]

(* pd.concat([returns, market_returns], axis=1).dropna(): the rows whose
   date is in both indexes *)
AlignedDates(s, m) == DOMAIN s \cap DOMAIN m

(* mutation: the regression is fitted without the check that the aligned
   frame has a row *)
M_calculate_beta(s, m, k) ==
    IF Size(s) > 0 /\ Size(m) > 0
    THEN LET D == DOMAIN s \cap DOMAIN m
         IN [kind |-> "ols", sxy |-> SumProd(s, m, D), sxx |-> SumProd(m, m, D),
             k |-> k, rows |-> D]
    ELSE [kind |-> "num", num |-> 1, den |-> 1]

(* OLS(y, X).fit().params[0] without intercept: the slope
   sum(x*y) / (k * sum(x*x)) over the aligned rows (the pseudo-inverse gives 0
   when x is all zero).  The result records the rows the regression was
   fitted on. *)
_calculate_beta(s, m, k) ==
    IF Size(s) > 0 /\ Size(m) > 0
    THEN LET D == AlignedDates(s, m)
         IN IF Cardinality(D) > 0
            THEN [kind |-> "ols", sxy |-> SumProd(s, m, D), sxx |-> SumProd(m, m, D),
                  k |-> k, rows |-> D]
            ELSE [kind |-> "num", num |-> 1, den |-> 1]
    ELSE [kind |-> "num", num |-> 1, den |-> 1]

Zero == [kind |-> "num", num |-> 0, den |-> 1]
One == [kind |-> "num", num |-> 1, den |-> 1]
NoResult == [fn |-> "none"]

----------------------------------------------------------------------------
(* Specification of the statistics over one return series *)

EmptyDict == [x \in {} |-> 0]
NoResponse == [handler |-> "none"]
NoCall == [handler |-> "none"]

IdleApp ==
    /\ portfolios = EmptyDict
    /\ cache = EmptyDict
    /\ clock = 0
    /\ response = NoResponse
    /\ call = NoCall

InitStats ==
    /\ returns \in SeriesOver(Dates, RetVals)
    /\ market_returns = EmptySeries
    /\ result = NoResult
    /\ IdleApp

CalcDailyPl ==
    /\ result' = [fn |-> "daily_pl", value |-> _calculate_daily_pl(returns, 1)]
    /\ UNCHANGED <<returns, market_returns, portfolios, cache, clock, response, call>>

CalcVar ==
    /\ result' = [fn |-> "var", value |-> _calculate_var(returns, 1)]
    /\ UNCHANGED <<returns, market_returns, portfolios, cache, clock, response, call>>

CalcVolatility ==
    /\ result' = [fn |-> "volatility", value |-> _calculate_volatility(returns, 1)]
    /\ UNCHANGED <<returns, market_returns, portfolios, cache, clock, response, call>>

CalcSharpe ==
    /\ result' = [fn |-> "sharpe", value |-> _calculate_sharpe_ratio(returns, 1)]
    /\ UNCHANGED <<returns, market_returns, portfolios, cache, clock, response, call>>

NextStats == CalcDailyPl \/ CalcVar \/ CalcVolatility \/ CalcSharpe

SpecStats == InitStats /\ [][NextStats]_vars

(* Specification of beta over a portfolio series and a benchmark series *)

InitBeta ==
    /\ returns \in SeriesOver(BetaDates, BetaVals)
    /\ market_returns \in SeriesOver(BetaDates, BetaVals)
    /\ result = NoResult
    /\ IdleApp

CalcBeta ==
    /\ result' = [fn |-> "beta", value |-> _calculate_beta(returns, market_returns, 1)]
    /\ UNCHANGED <<returns, market_returns, portfolios, cache, clock, response, call>>

NextBeta == CalcBeta

SpecBeta == InitBeta /\ [][NextBeta]_vars

(* C5: for a non-empty series of zero variance (all returns equal, a single
   return included) _calculate_sharpe_ratio returns 0.0 *)
C5_SharpeZeroVariance ==
    (result.fn = "sharpe" /\ Size(returns) > 0
        /\ \A d, e \in DOMAIN returns : returns[d] = returns[e])
    => result.value = Zero

(* C8: _calculate_var at confidence c returns the element of the ascending
   series at index floor((1 - c) * n), hence one of the input returns, and
   0.0 for an empty series *)
C8_VarIsOrderStatistic ==
    result.fn = "var"
    => IF Size(returns) = 0 THEN result.value = Zero
       ELSE LET idx == ((100 - ConfidencePct) * Size(returns)) \div 100
            IN /\ result.value.num = 100 * Sorted(returns)[idx + 1]
               /\ \E d \in DOMAIN returns : result.value.num = 100 * returns[d]

(* C9: _calculate_beta returns the default 1.0 without a regression when the
   portfolio series is empty, the benchmark series is empty or they share no
   date; otherwise the regression is fitted on exactly the shared dates *)
C9_BetaDefault ==
    result.fn = "beta"
    => LET common == { d \in DOMAIN returns : d \in DOMAIN market_returns }
       IN IF DOMAIN returns = {} \/ DOMAIN market_returns = {} \/ common = {}
          THEN result.value = One
          ELSE /\ result.value.kind = "ols"
               /\ result.value.rows = common
               /\ result.value.sxy = SumProd(returns, market_returns, common)
               /\ result.value.sxx = SumProd(market_returns, market_returns, common)

C9_Witness ==
    /\ result.fn = "beta"
    /\ DOMAIN returns = {1, 2}
    /\ DOMAIN market_returns = {3}
    /\ result.value = One

----------------------------------------------------------------------------
(* models.py: Position and Portfolio.  An Optional field is <<>> (None) or
   <<v>>.  A weight is the exact quotient num / den. *)

None == <<>>
Some(v) == <<v>>
Val(o) == o[1]

Tickers == {"A", "B"}
Users == {"u1"}
MaxPositions == 2
ShareVals == {0, 1, 2}
PurchasePrices == {2}

Position(t, sh, pp) ==
    [ticker |-> t, shares |-> sh, purchase_price |-> pp, current_price |-> None,
     market_value |-> None, unrealized_pl |-> None, weight |-> None]

(* main.py lines 81-83: the fields derived from a quote *)
Populate(p, price) ==
    [p EXCEPT !.current_price = Some(price),
              !.market_value = Some(price * p.shares),
              !.unrealized_pl = Some(price * p.shares - p.purchase_price * p.shares)]

SeqsUpTo(S, n) == UNION { [1..m -> S] : m \in 0..n }

----------------------------------------------------------------------------
(* The market-data provider (yfinance).  A download either raises or
   returns data; the data of a return-series download is a Series, the data
   of a forecast download is summarised by its number of price rows, whether
   the fit raises on it, and the prediction the fitted model gives. *)

DownloadError == [ok |-> FALSE, data |-> EmptySeries]
Downloaded(s) == [ok |-> TRUE, data |-> s]

(* for i in range(1, 6): five lagged features *)
LagCount == 5
(* rows lost to pct_change and the lags, one row dropped by X[:-1], and one
   sample needed by fit *)
MinRows == LagCount + 3

ForecastError == [ok |-> FALSE, rows |-> 0, fit_error |-> FALSE, pred |-> 0]
Forecast(r, fe, p) == [ok |-> TRUE, rows |-> r, fit_error |-> fe, pred |-> p]

----------------------------------------------------------------------------
(* PortfolioAnalyzer._run_lasso *)

(* the body of the try block for one position: raises when the download
   raises, when dropna leaves too few rows for fit, or when fit raises *)
(* mutation: the fit accepts a frame with too few rows *)
M_ForecastPosition(o) ==
    IF ~o.ok \/ o.fit_error
    THEN [raised |-> TRUE, value |-> 0]
    ELSE [raised |-> FALSE, value |-> o.pred]

ForecastPosition(o) ==
    IF ~o.ok \/ o.rows < MinRows \/ o.fit_error
    THEN [raised |-> TRUE, value |-> 0]
    ELSE [raised |-> FALSE, value |-> o.pred]

(* the index of the last position that carries ticker t: a later assignment
   to predictions[ticker] overwrites an earlier one *)
LastWith(positions, t) ==
    CHOOSE i \in 1..Len(positions) :
        /\ positions[i].ticker = t
        /\ \A j \in 1..Len(positions) : positions[j].ticker = t => j <= i

TickersOf(positions) == { positions[i].ticker : i \in 1..Len(positions) }

_run_lasso(positions, lasso) ==
    [raised |-> FALSE,
     predictions |->
        [t \in TickersOf(positions) |->
            LET r == ForecastPosition(lasso[LastWith(positions, t)])
            IN IF r.raised THEN 0 ELSE r.value]]

----------------------------------------------------------------------------
(* PortfolioAnalyzer.calculate_metrics *)

RECURSIVE TotalValue(_)
TotalValue(positions) ==
    IF positions = <<>> THEN 0
    ELSE Val(Head(positions).market_value) + TotalValue(Tail(positions))

(* position.market_value / total_value if total_value > 0 else 0 *)
Weight(mv, total) ==
    IF total > 0 THEN [num |-> mv, den |-> total] ELSE [num |-> 0, den |-> 1]

(* mutation: the weight taken from the quote instead of the market value *)
M_AssignWeights(positions, total) ==
    [i \in 1..Len(positions) |->
        [positions[i] EXCEPT !.weight = Some(Weight(Val(positions[i].current_price), total))]]

AssignWeights(positions, total) ==
    [i \in 1..Len(positions) |->
        [positions[i] EXCEPT !.weight = Some(Weight(Val(positions[i].market_value), total))]]

(* pd.concat(position_returns, axis=1): the index of the frame *)
JoinDates(hist) == UNION { DOMAIN hist[i].data : i \in 1..Len(hist) }

RECURSIVE RowSum(_, _, _, _)
(* .sum(axis=1) of one row: the cells of the positions that have the date *)
RowSum(positions, hist, d, i) ==
    IF i = 0 THEN 0
    ELSE RowSum(positions, hist, d, i - 1)
         + (IF d \in DOMAIN hist[i].data
            THEN hist[i].data[d] * Val(positions[i].weight).num
            ELSE 0)

(* portfolio_returns, in units of 1 / (RetUnit * k), k the weights' denominator *)
PortfolioReturns(positions, hist) ==
    [d \in JoinDates(hist) |-> RowSum(positions, hist, d, Len(positions))]

Raised(exc, positions, failed) ==
    [raised |-> TRUE, exc |-> exc, positions |-> positions, failed |-> failed,
     metrics |-> None, portfolio_returns |-> EmptySeries]

FirstFailed(hist) ==
    CHOOSE i \in 1..Len(hist) : ~hist[i].ok /\ \A j \in 1..(i - 1) : hist[j].ok

(* spy, hist[i] and lasso[i] are what the provider answers to the download
   of SPY, of position i's history, and of position i's forecast data.
   "positions" of the result is the list as the call leaves it: the weights
   are assigned in place before the first download. *)
calculate_metrics(positions, spy, hist, lasso) ==
    IF \E i \in 1..Len(positions) : positions[i].market_value = None
    THEN Raised("TypeError", positions, 0)
    ELSE
    LET total_value == TotalValue(positions)
        weighted == AssignWeights(positions, total_value)
        k == IF total_value > 0 THEN total_value ELSE 1
    IN  IF ~spy.ok THEN Raised("DownloadError", weighted, 0)
        ELSE IF \E i \in 1..Len(hist) : ~hist[i].ok
        THEN Raised("DownloadError", weighted, FirstFailed(hist))
        ELSE IF Len(positions) = 0
        THEN Raised("ValueError", weighted, 0)
        ELSE
        LET portfolio_returns == PortfolioReturns(weighted, hist)
        IN  [raised |-> FALSE, exc |-> "", positions |-> weighted, failed |-> 0,
             metrics |-> Some(
                [total_value |-> total_value,
                 daily_pl |-> _calculate_daily_pl(portfolio_returns, k),
                 var_95 |-> _calculate_var(portfolio_returns, k),
                 volatility |-> _calculate_volatility(portfolio_returns, k),
                 sharpe_ratio |-> _calculate_sharpe_ratio(portfolio_returns, k),
                 beta |-> _calculate_beta(portfolio_returns, spy.data, k),
                 lasso_predictions |-> _run_lasso(weighted, lasso).predictions]),
             portfolio_returns |-> portfolio_returns]

----------------------------------------------------------------------------
(* Specification of calculate_metrics on a portfolio whose positions have
   been populated from quotes *)

Quote(t) == IF t = "A" THEN 1 ELSE 3

PopulatedPositions ==
    { Populate(Position(t, sh, pp), Quote(t)) :
        t \in Tickers, sh \in ShareVals, pp \in PurchasePrices }

HistChoices ==
    { DownloadError, Downloaded(EmptySeries), Downloaded(1 :> 2), Downloaded(2 :> -1),
      Downloaded(1 :> -1 @@ 2 :> 2) }

SpyChoices == { DownloadError, Downloaded(EmptySeries), Downloaded(1 :> 2 @@ 2 :> -1) }

LassoChoices == { ForecastError, Forecast(MinRows, FALSE, 3) }

InitMetrics ==
    /\ portfolios \in { [u \in Users |-> [positions |-> ps]] :
                          ps \in SeqsUpTo(PopulatedPositions, MaxPositions) }
    /\ cache = EmptyDict
    /\ clock = 0
    /\ response = NoResponse
    /\ call = NoCall
    /\ returns = EmptySeries
    /\ market_returns = EmptySeries
    /\ result = NoResult

(* analyzer.calculate_metrics(portfolios[u]), applied once to the portfolio
   drawn by InitMetrics *)
CalculateMetrics(u) ==
    LET positions == portfolios[u].positions
        n == Len(positions)
    IN /\ response.handler = "none"
       /\ \E spy \in SpyChoices, hist \in [1..n -> HistChoices], lasso \in [1..n -> LassoChoices] :
        LET r == calculate_metrics(positions, spy, hist, lasso)
        IN /\ portfolios' = [portfolios EXCEPT ![u] = [positions |-> r.positions]]
           /\ call' = [handler |-> "calculate_metrics", positions |-> positions,
                       populated |-> {}]
           /\ response' = [handler |-> "calculate_metrics", raised |-> r.raised,
                           exc |-> r.exc, metrics |-> r.metrics, failed |-> r.failed,
                           portfolio_returns |-> r.portfolio_returns,
                           spy |-> spy, hist |-> hist, entry |-> positions]
           /\ UNCHANGED <<returns, market_returns, result, cache, clock>>

NextMetrics == \E u \in Users : CalculateMetrics(u)

SpecMetrics == InitMetrics /\ [][NextMetrics]_vars

(* exact sum of the weights, as a quotient *)
RECURSIVE WeightSum(_)
WeightSum(positions) ==
    IF positions = <<>> THEN [num |-> 0, den |-> 1]
    ELSE LET w == Val(Head(positions).weight)
             r == WeightSum(Tail(positions))
         IN [num |-> w.num * r.den + r.num * w.den, den |-> w.den * r.den]

(* C1: for an empty position list calculate_metrics does not raise and
   returns total_value = 0 with every aggregate metric at its default
   (stated for the runs in which the benchmark download itself succeeds) *)
C1_EmptyPortfolioDefaults ==
    (response.handler = "calculate_metrics" /\ response.entry = <<>> /\ response.spy.ok)
    => /\ ~response.raised
       /\ Val(response.metrics).total_value = 0
       /\ Val(response.metrics).var_95 = Zero
       /\ Val(response.metrics).volatility = Zero
       /\ Val(response.metrics).sharpe_ratio = Zero
       /\ Val(response.metrics).beta \in {Zero, One}

(* C3: once calculate_metrics has assigned the weights, they sum to 1 and
   each is market_value / total_value when the total value is positive, all
   are 0 when it is not, and a position with zero shares has weight 0 *)
C3_WeightsSumToOne ==
    \A u \in DOMAIN portfolios :
        (response.handler = "calculate_metrics" /\ response.exc # "TypeError")
        => LET ps == portfolios[u].positions
               total == TotalValue(response.entry)
               sum == WeightSum(ps)
           IN /\ \A i \in 1..Len(ps) : ps[i].weight # None
              /\ total > 0 =>
                    /\ sum.num = sum.den
                    /\ \A i \in 1..Len(ps) :
                          Val(ps[i].weight).num * total
                              = Val(ps[i].market_value) * Val(ps[i].weight).den
              /\ total <= 0 => \A i \in 1..Len(ps) : Val(ps[i].weight).num = 0
              /\ \A i \in 1..Len(ps) : ps[i].shares = 0 => Val(ps[i].weight).num = 0

C3_Witness ==
    /\ response.handler = "calculate_metrics"
    /\ \E u \in DOMAIN portfolios :
        LET ps == portfolios[u].positions
        IN /\ Len(ps) = 2
           /\ Val(ps[1].weight) = [num |-> 2, den |-> 5]
           /\ Val(ps[2].weight) = [num |-> 3, den |-> 5]

(* C4: the portfolio return series has exactly the dates present in every
   position's return series (inner join); a date missing from a position is
   excluded, not summed with that position counted as 0 *)
C4_InnerJoinOnDates ==
    (response.handler = "calculate_metrics" /\ ~response.raised)
    => DOMAIN response.portfolio_returns
         = { d \in JoinDates(response.hist) :
               \A i \in 1..Len(response.hist) : d \in DOMAIN response.hist[i].data }

----------------------------------------------------------------------------
(* Specification of _run_lasso over the positions of a portfolio *)

MaxLassoPositions == 3

LassoPositions == { Populate(Position(t, 1, 2), Quote(t)) : t \in Tickers }

LassoOutcomes ==
    { ForecastError, Forecast(0, FALSE, 3), Forecast(MinRows - 1, FALSE, 3),
      Forecast(MinRows, TRUE, 3), Forecast(MinRows, FALSE, 3), Forecast(MinRows, FALSE, -1) }

InitLasso ==
    /\ portfolios \in { [u \in Users |-> [positions |-> ps]] :
                          ps \in SeqsUpTo(LassoPositions, MaxLassoPositions) }
    /\ cache = EmptyDict
    /\ clock = 0
    /\ response = NoResponse
    /\ call = NoCall
    /\ returns = EmptySeries
    /\ market_returns = EmptySeries
    /\ result = NoResult

(* analyzer._run_lasso(portfolios[u]), applied once *)
RunLasso(u) ==
    LET positions == portfolios[u].positions
    IN /\ result.fn = "none"
       /\ \E lasso \in [1..Len(positions) -> LassoOutcomes] :
            result' = [fn |-> "lasso", value |-> _run_lasso(positions, lasso),
                       positions |-> positions, lasso |-> lasso]
       /\ UNCHANGED <<returns, market_returns, portfolios, cache, clock, response, call>>

NextLasso == \E u \in Users : RunLasso(u)

SpecLasso == InitLasso /\ [][NextLasso]_vars

(* the forecast of a position fails: the download raises, the history is too
   short for the lags and one training sample, or the fit raises *)
ForecastFails(o) == ~o.ok \/ o.rows < LagCount + 3 \/ o.fit_error

(* C7 as stated: no exception escapes, every ticker has an entry, and the
   entry of the ticker of a position whose forecast fails is 0.0 *)
C7_FailedTickerIsZero ==
    result.fn = "lasso"
    => LET ps == result.positions
           pred == result.value.predictions
       IN /\ ~result.value.raised
          /\ DOMAIN pred = TickersOf(ps)
          /\ \A i \in 1..Len(ps) : ForecastFails(result.lasso[i]) => pred[ps[i].ticker] = 0

(* C7 amended: no exception escapes, every ticker has an entry, and the entry
   of a ticker is decided by the last position that carries it alone: 0.0
   when that position's forecast fails, its own prediction otherwise,
   whatever happens to the other positions *)
C7_LassoIsolation ==
    result.fn = "lasso"
    => LET ps == result.positions
           pred == result.value.predictions
       IN /\ ~result.value.raised
          /\ DOMAIN pred = TickersOf(ps)
          /\ \A i \in 1..Len(ps) :
                (\A j \in (i + 1)..Len(ps) : ps[j].ticker # ps[i].ticker)
                => pred[ps[i].ticker]
                     = IF ForecastFails(result.lasso[i]) THEN 0 ELSE result.lasso[i].pred

C7_Witness ==
    /\ result.fn = "lasso"
    /\ \E i, j \in 1..Len(result.positions) :
        /\ result.positions[i].ticker # result.positions[j].ticker
        /\ result.lasso[i].ok /\ result.lasso[i].rows < LagCount + 3
        /\ ~ForecastFails(result.lasso[j])
        /\ result.value.predictions[result.positions[i].ticker] = 0
        /\ result.value.predictions[result.positions[j].ticker] = 3

----------------------------------------------------------------------------
(* scraper.py: get_stock_data of YahooFinanceScraper and of
   GoogleFinanceScraper (the same caching code around a different fetch).
   c is self.cache, a dict from ticker to (data, timestamp); now is
   datetime.now(), in minutes; fetch is what the remote source answers when
   it is asked.  The data carries the time it was fetched at. *)

(* timedelta(minutes=15) *)
CacheDuration == 15
MaxClock == 16

FetchError == [ok |-> FALSE, price |-> 0]
Fetched(p) == [ok |-> TRUE, price |-> p]

Put(c, t, v) == [x \in DOMAIN c \cup {t} |-> IF x = t THEN v ELSE c[x]]

(* mutation: an entry aged exactly cache_duration still counts as fresh *)
M_get_stock_data(c, t, now, fetch) ==
    IF t \in DOMAIN c /\ now - c[t].timestamp <= CacheDuration
    THEN [raised |-> FALSE, source |-> "cache", data |-> c[t].data, cache |-> c]
    ELSE IF fetch.ok
         THEN LET data == [current_price |-> fetch.price, fetched_at |-> now]
              IN [raised |-> FALSE, source |-> "fetch", data |-> data,
                  cache |-> Put(c, t, [data |-> data, timestamp |-> now])]
         ELSE [raised |-> TRUE, source |-> "fetch",
               data |-> [current_price |-> 0, fetched_at |-> now], cache |-> c]

get_stock_data(c, t, now, fetch) ==
    IF t \in DOMAIN c /\ now - c[t].timestamp < CacheDuration
    THEN [raised |-> FALSE, source |-> "cache", data |-> c[t].data, cache |-> c]
    ELSE IF fetch.ok
         THEN LET data == [current_price |-> fetch.price, fetched_at |-> now]
              IN [raised |-> FALSE, source |-> "fetch", data |-> data,
                  cache |-> Put(c, t, [data |-> data, timestamp |-> now])]
         ELSE [raised |-> TRUE, source |-> "fetch",
               data |-> [current_price |-> 0, fetched_at |-> now], cache |-> c]

NoCaches == [yahoo |-> EmptyDict, google |-> EmptyDict]

(* Specification of one scraper under calls and the passing of time *)

ScraperPrices == {1, 3}
ScraperFetches == {FetchError} \cup { Fetched(p) : p \in ScraperPrices }

InitScraper ==
    /\ cache = NoCaches
    /\ clock = 0
    /\ result = NoResult
    /\ portfolios = EmptyDict
    /\ response = NoResponse
    /\ call = NoCall
    /\ returns = EmptySeries
    /\ market_returns = EmptySeries

(* one minute passes *)
Tick ==
    /\ clock < MaxClock
    /\ clock' = clock + 1
    /\ UNCHANGED <<returns, market_returns, result, portfolios, cache, response, call>>

(* yahoo_scraper.get_stock_data(t) *)
GetStockData(t) ==
    \E fetch \in ScraperFetches :
        LET r == get_stock_data(cache.yahoo, t, clock, fetch)
        IN /\ cache' = [cache EXCEPT !.yahoo = r.cache]
           /\ result' = [fn |-> "get_stock_data", ticker |-> t, now |-> clock,
                         raised |-> r.raised, source |-> r.source, data |-> r.data,
                         cache_before |-> cache.yahoo]
           /\ UNCHANGED <<returns, market_returns, portfolios, clock, response, call>>

NextScraper == Tick \/ \E t \in Tickers : GetStockData(t)

SpecScraper == InitScraper /\ [][NextScraper]_vars

(* C10: a value get_stock_data returns was fetched strictly less than
   cache_duration before the call; a successful fetch stores the value with
   the time of the call; a failed fetch raises, happens only when there is
   no fresh entry, and leaves the cache as it was *)
C10_CacheFreshness ==
    result.fn = "get_stock_data"
    => LET t == result.ticker
           before == result.cache_before
       IN /\ ~result.raised =>
                /\ result.now - result.data.fetched_at < CacheDuration
                /\ t \in DOMAIN cache.yahoo
                /\ cache.yahoo[t].data = result.data
          /\ (~result.raised /\ result.source = "fetch") =>
                /\ result.data.fetched_at = result.now
                /\ cache.yahoo[t].timestamp = result.now
          /\ (~result.raised /\ result.source = "cache") => cache.yahoo = before
          /\ result.raised =>
                /\ cache.yahoo = before
                /\ t \in DOMAIN before => result.now - before[t].timestamp >= CacheDuration

(* an expired entry is not served: the fetch fails and the call raises *)
C10_Witness ==
    /\ result.fn = "get_stock_data"
    /\ result.raised
    /\ result.ticker \in DOMAIN result.cache_before
    /\ result.now - result.cache_before[result.ticker].timestamp = CacheDuration

----------------------------------------------------------------------------
(* main.py: the request handlers over the module-level dict "portfolios"
   and the two scrapers *)

(* the loop of get_portfolio_data over positions i..n: both scrapers are
   asked, then the position is populated in place; the first exception
   leaves the loop with the earlier positions populated *)
RECURSIVE FetchPrices(_, _, _, _, _, _)
FetchPrices(positions, c, now, yq, gq, i) ==
    IF i > Len(positions)
    THEN [raised |-> FALSE, positions |-> positions, cache |-> c, failed |-> 0, source |-> ""]
    ELSE LET t == positions[i].ticker
             y == get_stock_data(c.yahoo, t, now, yq[i])
         IN IF y.raised
            THEN [raised |-> TRUE, positions |-> positions, cache |-> c,
                  failed |-> i, source |-> "yahoo"]
            ELSE LET g == get_stock_data(c.google, t, now, gq[i])
                     c1 == [yahoo |-> y.cache, google |-> g.cache]
                 IN IF g.raised
                    THEN [raised |-> TRUE, positions |-> positions, cache |-> c1,
                          failed |-> i, source |-> "google"]
                    ELSE FetchPrices([positions EXCEPT ![i] = Populate(@, y.data.current_price)],
                                     c1, now, yq, gq, i + 1)

AppShareVals == {2}

FreshPositions ==
    { Position(t, sh, pp) : t \in Tickers, sh \in AppShareVals, pp \in PurchasePrices }

(* what the remote sources answer during one request of the application *)
AppFetches == { FetchError, Fetched(3) }
AppHistChoices == { DownloadError, Downloaded(1 :> -1 @@ 2 :> 2) }
AppSpyChoices == { DownloadError, Downloaded(1 :> 2 @@ 2 :> -1) }
AppLassoChoices == { ForecastError }

Init ==
    /\ portfolios = EmptyDict
    /\ cache = NoCaches
    /\ clock = 0
    /\ response = NoResponse
    /\ call = NoCall
    /\ returns = EmptySeries
    /\ market_returns = EmptySeries
    /\ result = NoResult

(* POST /upload.  user_id is "" when the parameter is absent; rows is None
   when the file cannot be read, lacks a required column or holds a value
   float() rejects *)
upload_portfolio(u, rows) ==
    /\ IF u = ""
       THEN /\ response' = [handler |-> "upload", status |-> 400]
            /\ UNCHANGED portfolios
       ELSE IF rows = None
       THEN /\ response' = [handler |-> "upload", status |-> 400]
            /\ UNCHANGED portfolios
       ELSE /\ portfolios' = Put(portfolios, u, [positions |-> Val(rows)])
            /\ response' = [handler |-> "upload", status |-> 200]
    /\ UNCHANGED <<returns, market_returns, result, cache, clock, call>>

(* POST /manual-entry *)
manual_entry(u, rows) ==
    /\ IF rows = None
       THEN /\ response' = [handler |-> "manual-entry", status |-> 400]
            /\ UNCHANGED portfolios
       ELSE /\ portfolios' = Put(portfolios, u, [positions |-> Val(rows)])
            /\ response' = [handler |-> "manual-entry", status |-> 200]
    /\ UNCHANGED <<returns, market_returns, result, cache, clock, call>>

(* GET /data *)
get_portfolio_data(u) ==
    /\ IF u \notin DOMAIN portfolios
       THEN /\ response' = [handler |-> "data", status |-> 404]
            /\ UNCHANGED <<portfolios, cache, call>>
       ELSE
       LET positions == portfolios[u].positions
           n == Len(positions)
       IN \E yq \in [1..n -> AppFetches], gq \in [1..n -> AppFetches] :
           LET f == FetchPrices(positions, cache, clock, yq, gq, 1)
           IN IF f.raised
              THEN /\ portfolios' = [portfolios EXCEPT ![u] = [positions |-> f.positions]]
                   /\ cache' = f.cache
                   /\ response' = [handler |-> "data", status |-> 500, metrics |-> None,
                                   price_failed |-> f.failed, source |-> f.source,
                                   hist_failed |-> 0]
                   /\ UNCHANGED call
              ELSE \E spy \in AppSpyChoices, hist \in [1..n -> AppHistChoices],
                      lasso \in [1..n -> AppLassoChoices] :
                   LET r == calculate_metrics(f.positions, spy, hist, lasso)
                   IN /\ portfolios' = [portfolios EXCEPT ![u] = [positions |-> r.positions]]
                      /\ cache' = f.cache
                      /\ call' = [handler |-> "data", positions |-> f.positions,
                                  populated |-> 1..n]
                      /\ response' = [handler |-> "data",
                                      status |-> IF r.raised THEN 500 ELSE 200,
                                      metrics |-> r.metrics,
                                      price_failed |-> 0, source |-> "",
                                      hist_failed |-> r.failed]
    /\ UNCHANGED <<returns, market_returns, result, clock>>

(* GET /report: the metrics are computed on the portfolio as stored *)
generate_report(u) ==
    /\ IF u \notin DOMAIN portfolios
       THEN /\ response' = [handler |-> "report", status |-> 404]
            /\ UNCHANGED <<portfolios, call>>
       ELSE
       LET positions == portfolios[u].positions
           n == Len(positions)
       IN \E spy \in AppSpyChoices, hist \in [1..n -> AppHistChoices],
             lasso \in [1..n -> AppLassoChoices] :
           LET r == calculate_metrics(positions, spy, hist, lasso)
           IN /\ portfolios' = [portfolios EXCEPT ![u] = [positions |-> r.positions]]
              /\ call' = [handler |-> "report", positions |-> positions, populated |-> {}]
              /\ response' = [handler |-> "report",
                              status |-> IF r.raised THEN 500 ELSE 200,
                              metrics |-> r.metrics, exc |-> r.exc,
                              hist_failed |-> r.failed]
    /\ UNCHANGED <<returns, market_returns, result, cache, clock>>

(* the cached quotes expire *)
Elapse ==
    /\ clock + CacheDuration <= MaxClock
    /\ clock' = clock + CacheDuration
    /\ UNCHANGED <<returns, market_returns, result, portfolios, cache, response, call>>

Uploads == {None} \cup { Some(ps) : ps \in SeqsUpTo(FreshPositions, MaxPositions) }

Next ==
    \/ \E u \in Users \cup {""}, rows \in Uploads : upload_portfolio(u, rows)
    \/ \E u \in Users, rows \in Uploads : manual_entry(u, rows)
    \/ \E u \in Users : get_portfolio_data(u)
    \/ \E u \in Users : generate_report(u)
    \/ Elapse

Spec == Init /\ [][Next]_vars

(* C2: when the market data of one position cannot be obtained (its quote in
   the /data handler, or its price history in calculate_metrics) the /data
   request still answers with metrics *)
C2_FailureIsolated ==
    (response.handler = "data" /\ response.status # 404
        /\ ((response.price_failed # 0 /\ response.source = "yahoo")
            \/ response.hist_failed # 0))
    => (response.status = 200 /\ response.metrics # None)

(* C6: whenever calculate_metrics runs for a stored portfolio, in GET /data
   or GET /report, every position has its market value set, populated
   earlier in the same request *)
C6_PricesPopulatedBeforeMetrics ==
    call.handler \in {"data", "report"}
    => \A i \in 1..Len(call.positions) :
          /\ call.positions[i].market_value # None
          /\ i \in call.populated

====
